---- MODULE Spec2Model ----
(***************************************************************************)
(* Model of the address-validator core: services/parser.py (tag adapter,   *)
(* ambiguity recovery, city recovery) and services/standardizer.py         *)
(* (field clean-up, lookup, unit resolution, line assembly).               *)
(*                                                                         *)
(* A Python str is a sequence of one-character strings; a dict is a        *)
(* function whose DOMAIN is the set of keys present.                       *)
(***************************************************************************)
EXTENDS Integers, Sequences, FiniteSets, TLC

VARIABLES
    pc,                 \* position of the sequential call being modelled
    raw,                \* the str argument (parse_address / _std_zip)
    cleaned,            \* parse_address: local `cleaned`
    tagged,             \* outcome of usaddress.tag: [raised, labels, addr_type, parsed_string]
    pos,                \* ambiguity loop: index of the next (token, label) pair
    prev_key,           \* ambiguity loop: local `prev_key` (None = "")
    separator_before,   \* ambiguity loop: local `separator_before`
    components,         \* local / argument dict `components`
    response,           \* the value returned by the call
    tables,             \* module-level lookup dicts (process-wide state)
    caller_components,  \* concurrent model: the dict the caller hands to standardize
    calls               \* concurrent model: the frames of the in-flight calls

vars == <<pc, raw, cleaned, tagged, pos, prev_key, separator_before,
          components, response, tables, caller_components, calls>>

(***************************************************************************)
(* Characters and Python str methods                                       *)
(***************************************************************************)
LowerLetters == <<"a","b","c","d","e","f","g","h","i","j","k","l","m",
                  "n","o","p","q","r","s","t","u","v","w","x","y","z">>
UpperLetters == <<"A","B","C","D","E","F","G","H","I","J","K","L","M",
                  "N","O","P","Q","R","S","T","U","V","W","X","Y","Z">>
Digits == {"0","1","2","3","4","5","6","7","8","9"}
Whitespace == {" ", "\t"}

Range(s) == {s[i] : i \in 1..Len(s)}

IsAlpha(c) == c \in Range(LowerLetters) \cup Range(UpperLetters)
IsDigit(c) == c \in Digits

UpperChar(c) ==
    IF c \in Range(LowerLetters)
    THEN UpperLetters[CHOOSE i \in 1..26 : LowerLetters[i] = c]
    ELSE c

\* str.upper()
Upper(s) == [i \in 1..Len(s) |-> UpperChar(s[i])]

\* str.replace(c, "")
RemoveChar(s, c) == SelectSeq(s, LAMBDA x : x # c)

\* `c in s`
Contains(s, c) == \E i \in 1..Len(s) : s[i] = c

RECURSIVE LStripSet(_, _)
LStripSet(s, cs) ==
    IF s # <<>> /\ Head(s) \in cs THEN LStripSet(Tail(s), cs) ELSE s

RECURSIVE RStripSet(_, _)
RStripSet(s, cs) ==
    IF s # <<>> /\ s[Len(s)] \in cs
    THEN RStripSet(SubSeq(s, 1, Len(s) - 1), cs)
    ELSE s

\* str.strip(chars): both ends
StripSet(s, cs) == RStripSet(LStripSet(s, cs), cs)

\* str.strip()
Strip(s) == StripSet(s, Whitespace)

\* least index of c in s, 0 when absent
IndexOf(s, c) ==
    IF Contains(s, c) THEN CHOOSE i \in 1..Len(s) :
                               s[i] = c /\ \A j \in 1..(i - 1) : s[j] # c
    ELSE 0

\* str.partition(c) -> <<before, sep, after>>
Partition(s, c) ==
    LET i == IndexOf(s, c)
    IN  IF i = 0 THEN <<s, <<>>, <<>>>>
        ELSE <<SubSeq(s, 1, i - 1), <<c>>, SubSeq(s, i + 1, Len(s))>>

\* least index of a whitespace character in s, 0 when absent
FirstSpace(s) ==
    IF \E i \in 1..Len(s) : s[i] \in Whitespace
    THEN CHOOSE i \in 1..Len(s) :
             s[i] \in Whitespace /\ \A j \in 1..(i - 1) : s[j] \notin Whitespace
    ELSE 0

\* str.split(None, 1): at most two parts; the second keeps its trailing whitespace
SplitFirst(s) ==
    LET t == LStripSet(s, Whitespace)
        i == FirstSpace(t)
    IN  IF t = <<>> THEN <<>>
        ELSE IF i = 0 THEN <<t>>
        ELSE LET r == LStripSet(SubSeq(t, i + 1, Len(t)), Whitespace)
             IN  IF r = <<>> THEN <<SubSeq(t, 1, i - 1)>>
                 ELSE <<SubSeq(t, 1, i - 1), r>>

\* str.startswith(p)
StartsWith(s, p) == Len(s) >= Len(p) /\ SubSeq(s, 1, Len(p)) = p

\* sep.join(parts)
RECURSIVE Join(_, _)
Join(parts, sep) ==
    IF parts = <<>> THEN <<>>
    ELSE IF Len(parts) = 1 THEN parts[1]
    ELSE parts[1] \o sep \o Join(Tail(parts), sep)

\* dict.get(key, "")
Get(d, k) == IF k \in DOMAIN d THEN d[k] ELSE <<>>

\* d[k] = v
Put(d, k, v) == [x \in DOMAIN d \cup {k} |-> IF x = k THEN v ELSE d[x]]

EmptyDict == [x \in {} |-> <<>>]

(***************************************************************************)
(* Words used by the tables and the inputs                                 *)
(***************************************************************************)
sp == <<" ">>
comma == <<",">>
hash == <<"#">>
amp == <<"&">>
hyphen == <<"-">>

wN == <<"N">>
wS == <<"S">>
wE == <<"E">>
wW == <<"W">>
wNE == <<"N","E">>
wNW == <<"N","W">>
wSE == <<"S","E">>
wSW == <<"S","W">>
wNORTH == <<"N","O","R","T","H">>
wSOUTH == <<"S","O","U","T","H">>
wEAST == <<"E","A","S","T">>
wWEST == <<"W","E","S","T">>
wNORTHEAST == wNORTH \o wEAST
wNORTHWEST == wNORTH \o wWEST
wSOUTHEAST == wSOUTH \o wEAST
wSOUTHWEST == wSOUTH \o wWEST

wAPT == <<"A","P","T">>
wAPARTMENT == <<"A","P","A","R","T","M","E","N","T">>
wBLDG == <<"B","L","D","G">>
wBUILDING == <<"B","U","I","L","D","I","N","G">>
wBSMT == <<"B","S","M","T">>
wBASEMENT == <<"B","A","S","E","M","E","N","T">>
wFRNT == <<"F","R","N","T">>
wFRONT == <<"F","R","O","N","T">>
wKEY == <<"K","E","Y">>
wLBBY == <<"L","B","B","Y">>
wLOBBY == <<"L","O","B","B","Y">>
wLOT == <<"L","O","T">>
wLOWR == <<"L","O","W","R">>
wLOWER == <<"L","O","W","E","R">>
wPH == <<"P","H">>
wPENTHOUSE == <<"P","E","N","T","H","O","U","S","E">>
wREAR == <<"R","E","A","R">>
wSIDE == <<"S","I","D","E">>
wSTE == <<"S","T","E">>
wSUITE == <<"S","U","I","T","E">>
wUNIT == <<"U","N","I","T">>
wUPPR == <<"U","P","P","R">>
wUPPER == <<"U","P","P","E","R">>

wST == <<"S","T">>
wSTREET == <<"S","T","R","E","E","T">>
wAVE == <<"A","V","E">>
wAVENUE == <<"A","V","E","N","U","E">>

wWA == <<"W","A">>
wWASHINGTON == <<"W","A","S","H","I","N","G","T","O","N">>

(***************************************************************************)
(* Lookup tables                                                           *)
(***************************************************************************)
DirectionalTable ==
    (wNORTH :> wN) @@ (wN :> wN) @@ (wSOUTH :> wS) @@ (wS :> wS) @@
    (wEAST :> wE) @@ (wE :> wE) @@ (wWEST :> wW) @@ (wW :> wW) @@
    (wNORTHEAST :> wNE) @@ (wNE :> wNE) @@ (wNORTHWEST :> wNW) @@ (wNW :> wNW) @@
    (wSOUTHEAST :> wSE) @@ (wSE :> wSE) @@ (wSOUTHWEST :> wSW) @@ (wSW :> wSW)

\* usps_data/units.py: USPS Pub 28 Appendix C2 secondary unit designators
\* (the designators the parser names, each closed under its abbreviation)
UnitTable ==
    (wAPARTMENT :> wAPT) @@ (wAPT :> wAPT) @@
    (wBASEMENT :> wBSMT) @@ (wBSMT :> wBSMT) @@
    (wBUILDING :> wBLDG) @@ (wBLDG :> wBLDG) @@
    (wFRONT :> wFRNT) @@ (wFRNT :> wFRNT) @@
    (wKEY :> wKEY) @@
    (wLOBBY :> wLBBY) @@ (wLBBY :> wLBBY) @@
    (wLOT :> wLOT) @@
    (wLOWER :> wLOWR) @@ (wLOWR :> wLOWR) @@
    (wPENTHOUSE :> wPH) @@ (wPH :> wPH) @@
    (wREAR :> wREAR) @@
    (wSIDE :> wSIDE) @@
    (wSUITE :> wSTE) @@ (wSTE :> wSTE) @@
    (wUNIT :> wUNIT) @@
    (wUPPER :> wUPPR) @@ (wUPPR :> wUPPR)

\* usps_data/suffixes.py: USPS Pub 28 Appendix C1 street suffixes (excerpt)
SuffixTable ==
    (wSTREET :> wST) @@ (wST :> wST) @@ (wAVENUE :> wAVE) @@ (wAVE :> wAVE)

\* usps_data/states.py: USPS Pub 28 Appendix B state names (excerpt)
StateTable ==
    (wWASHINGTON :> wWA) @@ (wWA :> wWA)

InitialTables ==
    [DIRECTIONAL_MAP |-> DirectionalTable, SUFFIX_MAP |-> SuffixTable,
     STATE_MAP |-> StateTable, UNIT_MAP |-> UnitTable]

DIRECTIONAL_MAP == tables.DIRECTIONAL_MAP
SUFFIX_MAP == tables.SUFFIX_MAP
STATE_MAP == tables.STATE_MAP
UNIT_MAP == tables.UNIT_MAP

(***************************************************************************)
(* standardizer.py: field helpers                                          *)
(***************************************************************************)
_clean_lookup(value) ==
    StripSet(Strip(RemoveChar(RemoveChar(RemoveChar(Upper(value), "."), "("), ")")),
             {",", ";"})

_lookup(value, table) ==
    LET c == _clean_lookup(value)
    IN  IF c \in DOMAIN table THEN table[c] ELSE c

\* re.sub(r"[^\d]", "", raw)
DigitsOf(s) == SelectSeq(s, IsDigit)

\* slice of the +4 part taken one digit early
_std_zip_early(r) ==
    LET digits == DigitsOf(r)
    IN  IF Len(digits) >= 9
        THEN SubSeq(digits, 1, 5) \o hyphen \o SubSeq(digits, 5, 8)
        ELSE IF Len(digits) >= 5 THEN SubSeq(digits, 1, 5)
        ELSE digits

_std_zip(r) ==
    LET digits == DigitsOf(r)
    IN  IF Len(digits) >= 9
        THEN SubSeq(digits, 1, 5) \o hyphen \o SubSeq(digits, 6, 9)
        ELSE IF Len(digits) >= 5 THEN SubSeq(digits, 1, 5)
        ELSE digits

_get(comps, key) ==
    StripSet(RemoveChar(RemoveChar(RemoveChar(Upper(Strip(Get(comps, key))), "."),
                                   "("), ")"),
             {",", ";"})

(***************************************************************************)
(* standardizer.py: standardize                                            *)
(***************************************************************************)
\* v = _get(components, key); if v: std[key] = v
StoreClean(std, comps, key) ==
    LET v == _get(comps, key)
    IN  IF v # <<>> THEN Put(std, key, v) ELSE std

\* v = _get(components, key); if v: std[key] = _lookup(v, table)
StoreLookup(std, comps, key, table) ==
    LET v == _get(comps, key)
    IN  IF v # <<>> THEN Put(std, key, _lookup(v, table)) ELSE std

PrimaryStreetKeys ==
    <<"street_name_pre_directional", "street_name_pre_modifier",
      "street_name_pre_type", "street_name", "street_name_post_type",
      "street_name_post_directional", "street_name_post_modifier">>

SecondStreetKeys ==
    <<"second_street_name_pre_directional", "second_street_name_pre_modifier",
      "second_street_name_pre_type", "second_street_name",
      "second_street_name_post_type", "second_street_name_post_directional",
      "second_street_name_post_modifier">>

\* the keys of _street_parts / _standardize_street_fields for a prefix
StreetKeys(prefix) == IF prefix = "second_" THEN SecondStreetKeys ELSE PrimaryStreetKeys

\* [std[k] for k in keys if std.get(k)]
RECURSIVE NonEmptyValues(_, _)
NonEmptyValues(d, keys) ==
    IF keys = <<>> THEN <<>>
    ELSE (IF Get(d, Head(keys)) # <<>> THEN <<d[Head(keys)]>> ELSE <<>>)
         \o NonEmptyValues(d, Tail(keys))

\* post-directional read before post-type
_street_parts_swapped(std, prefix) ==
    LET k == StreetKeys(prefix)
    IN  NonEmptyValues(std, <<k[1], k[2], k[3], k[4], k[6], k[5], k[7]>>)

_street_parts(std, prefix) == NonEmptyValues(std, StreetKeys(prefix))

_standardize_street_fields(comps, std, prefix) ==
    LET k  == StreetKeys(prefix)
        s1 == StoreLookup(std, comps, k[1], DIRECTIONAL_MAP)
        s2 == StoreClean(s1, comps, k[2])
        s3 == StoreLookup(s2, comps, k[3], SUFFIX_MAP)
        s4 == StoreClean(s3, comps, k[4])
        s5 == StoreLookup(s4, comps, k[5], SUFFIX_MAP)
        s6 == StoreLookup(s5, comps, k[6], DIRECTIONAL_MAP)
    IN  StoreClean(s6, comps, k[7])

\* standardize, "primary number"
StdNumber(comps, std) ==
    StoreClean(StoreClean(StoreClean(std, comps, "address_number"),
                          comps, "address_number_prefix"),
               comps, "address_number_suffix")

\* standardize: the four unit locals as first read
UnitRead(comps) ==
    LET ut == _get(comps, "occupancy_type")
        st == _get(comps, "subaddress_type")
    IN  [unit_type |-> IF ut # <<>> THEN _lookup(ut, UNIT_MAP) ELSE ut,
         unit_id   |-> _get(comps, "occupancy_identifier"),
         sub_type  |-> IF st # <<>> THEN _lookup(st, UNIT_MAP) ELSE st,
         sub_id    |-> _get(comps, "subaddress_identifier")]

\* one fallback field: the unit it yields, or the unit unchanged and hit = FALSE
FallbackField(u, comps, key) ==
    LET fb    == _get(comps, key)
        parts == SplitFirst(fb)
    IN  IF fb # <<>> /\ parts # <<>> /\ parts[1] \in DOMAIN UNIT_MAP
        THEN [hit |-> TRUE,
              u |-> [u EXCEPT !.unit_type = UNIT_MAP[parts[1]],
                              !.unit_id = IF Len(parts) > 1 THEN parts[2] ELSE <<>>]]
        ELSE [hit |-> FALSE, u |-> u]

\* standardize: recovery from building_name, then landmark_name
UnitFallback(u, comps) ==
    IF u.unit_type = <<>> /\ u.unit_id = <<>> /\ u.sub_type = <<>> /\ u.sub_id = <<>>
    THEN LET b == FallbackField(u, comps, "building_name")
         IN  IF b.hit THEN b.u ELSE FallbackField(u, comps, "landmark_name").u
    ELSE u

\* the subaddress pair copied to the primary unit slot and left where it was
UnitPromote_keeps_subaddress(u) ==
    IF u.unit_type = <<>> /\ u.unit_id = <<>>
    THEN [unit_type |-> u.sub_type, unit_id |-> u.sub_id,
          sub_type |-> u.sub_type, sub_id |-> u.sub_id]
    ELSE u

\* standardize: promote subaddress to the primary unit slot
UnitPromote(u) ==
    IF u.unit_type = <<>> /\ u.unit_id = <<>>
    THEN [unit_type |-> u.sub_type, unit_id |-> u.sub_id,
          sub_type |-> <<>>, sub_id |-> <<>>]
    ELSE u

\* the "#" prefix and the designator word handled as exclusive cases
UnitHash_exclusive(u) ==
    IF u.unit_id # <<>> /\ u.unit_type = <<>>
    THEN LET parts == SplitFirst(u.unit_id)
         IN  IF StartsWith(u.unit_id, hash)
             THEN [u EXCEPT !.unit_type = hash,
                            !.unit_id = Strip(SubSeq(u.unit_id, 2, Len(u.unit_id)))]
             ELSE IF parts # <<>> /\ parts[1] \in DOMAIN UNIT_MAP
             THEN [u EXCEPT !.unit_type = UNIT_MAP[parts[1]],
                            !.unit_id = IF Len(parts) > 1 THEN parts[2] ELSE <<>>]
             ELSE [u EXCEPT !.unit_type = hash]
    ELSE u

\* standardize: identifier without a designator
UnitHash(u) ==
    IF u.unit_id # <<>> /\ u.unit_type = <<>>
    THEN LET id1 == IF StartsWith(u.unit_id, hash \o sp)
                    THEN Strip(SubSeq(u.unit_id, 3, Len(u.unit_id)))
                    ELSE IF StartsWith(u.unit_id, hash)
                    THEN Strip(SubSeq(u.unit_id, 2, Len(u.unit_id)))
                    ELSE u.unit_id
             parts == SplitFirst(id1)
         IN  IF parts # <<>> /\ parts[1] \in DOMAIN UNIT_MAP
             THEN [u EXCEPT !.unit_type = UNIT_MAP[parts[1]],
                            !.unit_id = IF Len(parts) > 1 THEN parts[2] ELSE <<>>]
             ELSE [u EXCEPT !.unit_type = hash, !.unit_id = id1]
    ELSE u

\* the resolved unit locals of standardize
UnitResolve(comps) == UnitHash(UnitPromote(UnitFallback(UnitRead(comps), comps)))

PutIf(std, key, v) == IF v # <<>> THEN Put(std, key, v) ELSE std

\* standardize: the unit locals written to std
StdUnit(comps, std) ==
    LET u == UnitResolve(comps)
    IN  PutIf(PutIf(PutIf(PutIf(std, "occupancy_type", u.unit_type),
                          "occupancy_identifier", u.unit_id),
                    "subaddress_type", u.sub_type),
              "subaddress_identifier", u.sub_id)

\* standardize: city, state, ZIP
StdLastFields(comps, std) ==
    LET s1 == StoreClean(std, comps, "city")
        s2 == StoreLookup(s1, comps, "state", STATE_MAP)
        z  == _get(comps, "zip_code")
    IN  IF z # <<>> THEN Put(s2, "zip_code", _std_zip(z)) ELSE s2

\* standardize: PO box
StdBox(comps, std) ==
    StoreClean(StoreClean(std, comps, "usps_box_type"), comps, "usps_box_id")

\* the dict `std` of standardize
StdComponents(comps) ==
    StdBox(comps,
      StdLastFields(comps,
        StdUnit(comps,
          _standardize_street_fields(comps,
            _standardize_street_fields(comps, StdNumber(comps, EmptyDict), ""),
            "second_"))))

NumberKeys == <<"address_number_prefix", "address_number", "address_number_suffix">>

\* standardize: address line 1
Line1(std) ==
    LET number_parts  == NonEmptyValues(std, NumberKeys)
        first_street  == _street_parts(std, "")
        second_street == _street_parts(std, "second_")
    IN  IF first_street # <<>> /\ second_street # <<>>
        THEN Join(number_parts \o first_street \o <<amp>> \o second_street, sp)
        ELSE IF first_street # <<>> \/ number_parts # <<>>
        THEN Join(number_parts \o first_street, sp)
        ELSE IF Get(std, "usps_box_type") # <<>> \/ Get(std, "usps_box_id") # <<>>
        THEN Join(NonEmptyValues(std, <<"usps_box_type", "usps_box_id">>), sp)
        ELSE <<>>

\* standardize: address line 2
Line2(u) ==
    Join(SelectSeq(<<u.sub_type, u.sub_id, u.unit_type, u.unit_id>>,
                   LAMBDA x : x # <<>>), sp)

\* standardize: last line
LastLine(std) ==
    LET city  == Get(std, "city")
        state == Get(std, "state")
        zip   == Get(std, "zip_code")
        cs    == IF city # <<>> /\ state # <<>> THEN <<city \o comma \o sp \o state>>
                 ELSE IF city # <<>> THEN <<city>>
                 ELSE IF state # <<>> THEN <<state>>
                 ELSE <<>>
    IN  Join(cs \o (IF zip # <<>> THEN <<zip>> ELSE <<>>), sp)

\* standardize: the response built from std and the unit locals
Assemble(std, u) ==
    LET line1 == Line1(std)
        line2 == Line2(u)
        last  == LastLine(std)
    IN  [address_line_1 |-> line1,
         address_line_2 |-> line2,
         city |-> Get(std, "city"),
         state |-> Get(std, "state"),
         zip_code |-> Get(std, "zip_code"),
         standardized |-> Join(SelectSeq(<<line1, line2, last>>, LAMBDA x : x # <<>>),
                               sp \o sp),
         components |-> std]

standardize(comps) == Assemble(StdComponents(comps), UnitResolve(comps))

(***************************************************************************)
(* parser.py                                                               *)
(***************************************************************************)
\* _ADDRESS_VOCABULARY: built once, at import, from the tables as loaded
_ADDRESS_VOCABULARY ==
    DOMAIN UnitTable \cup DOMAIN SuffixTable \cup DOMAIN DirectionalTable
        \cup DOMAIN StateTable

_NO_ID_DESIGNATORS ==
    {wBASEMENT, wBSMT, wFRONT, wFRNT, wLOBBY, wLBBY, wLOWER, wLOWR,
     wPENTHOUSE, wPH, wREAR, wSIDE, wUPPER, wUPPR}

TAG_NAMES ==
    [AddressNumber |-> "address_number",
     AddressNumberPrefix |-> "address_number_prefix",
     AddressNumberSuffix |-> "address_number_suffix",
     StreetNamePreDirectional |-> "street_name_pre_directional",
     StreetNamePreModifier |-> "street_name_pre_modifier",
     StreetNamePreType |-> "street_name_pre_type",
     StreetName |-> "street_name",
     StreetNamePostDirectional |-> "street_name_post_directional",
     StreetNamePostModifier |-> "street_name_post_modifier",
     StreetNamePostType |-> "street_name_post_type",
     SubaddressType |-> "subaddress_type",
     SubaddressIdentifier |-> "subaddress_identifier",
     OccupancyType |-> "occupancy_type",
     OccupancyIdentifier |-> "occupancy_identifier",
     PlaceName |-> "city",
     StateName |-> "state",
     ZipCode |-> "zip_code",
     USPSBoxType |-> "usps_box_type",
     USPSBoxID |-> "usps_box_id",
     USPSBoxGroupType |-> "usps_box_group_type",
     USPSBoxGroupID |-> "usps_box_group_id",
     BuildingName |-> "building_name",
     Recipient |-> "recipient",
     NotAddress |-> "not_address",
     IntersectionSeparator |-> "intersection_separator",
     LandmarkName |-> "landmark_name",
     CornerOf |-> "corner_of",
     SecondStreetName |-> "second_street_name",
     SecondStreetNamePreDirectional |-> "second_street_name_pre_directional",
     SecondStreetNamePreModifier |-> "second_street_name_pre_modifier",
     SecondStreetNamePreType |-> "second_street_name_pre_type",
     SecondStreetNamePostDirectional |-> "second_street_name_post_directional",
     SecondStreetNamePostModifier |-> "second_street_name_post_modifier",
     SecondStreetNamePostType |-> "second_street_name_post_type"]

\* TAG_NAMES.get(label, label)
TagKey(label) == IF label \in DOMAIN TAG_NAMES THEN TAG_NAMES[label] ELSE label

\* {TAG_NAMES.get(label, label): value for label, value in tagged.items()}
\* (the labels of one tagging are distinct and map to distinct keys)
AdaptLabels(labels) ==
    [k \in {TagKey(l) : l \in DOMAIN labels} |->
        labels[CHOOSE l \in DOMAIN labels : TagKey(l) = k]]

_UNIT_SLOT_PAIRS ==
    <<<<"occupancy_type", "occupancy_identifier">>,
      <<"subaddress_type", "subaddress_identifier">>>>

\* a slot taken to be free as soon as its type is empty
SlotFree_type_only(comps, pair) == Get(comps, pair[1]) = <<>>

\* a slot is free when neither of its keys holds a non-empty value
SlotFree(comps, pair) == Get(comps, pair[1]) = <<>> /\ Get(comps, pair[2]) = <<>>

\* the first empty (type_key, id_key) pair, or <<>> for None
_next_free_unit_slot(comps) ==
    IF SlotFree(comps, _UNIT_SLOT_PAIRS[1]) THEN _UNIT_SLOT_PAIRS[1]
    ELSE IF SlotFree(comps, _UNIT_SLOT_PAIRS[2]) THEN _UNIT_SLOT_PAIRS[2]
    ELSE <<>>

\* (type, identifier) of a segment led by a UNIT_MAP key, or <<>> for None
_try_extract_designator(segment) ==
    LET parts == SplitFirst(Strip(segment))
    IN  IF parts = <<>> THEN <<>>
        ELSE IF RemoveChar(Upper(parts[1]), ".") \notin DOMAIN UNIT_MAP THEN <<>>
        ELSE <<parts[1], IF Len(parts) > 1 THEN parts[2] ELSE <<>>>>

\* the phase-1 loop body without the test that the text after the comma is empty
Phase1Body_ignores_empty_after(comps) ==
    LET city   == Get(comps, "city")
        parts  == Partition(city, ",")
        before == Strip(parts[1])
        after  == Strip(parts[3])
        result == _try_extract_designator(before)
        slot   == _next_free_unit_slot(comps)
        word   == RemoveChar(Upper(before), ".")
    IN  IF city = <<>> \/ ~Contains(city, ",") THEN [continue |-> FALSE, components |-> comps]
        ELSE IF before = <<>> THEN [continue |-> FALSE, components |-> comps]
        ELSE IF result # <<>>
        THEN LET c1 == IF slot # <<>> THEN Put(comps, slot[1], result[1]) ELSE comps
                 c2 == IF slot # <<>> /\ result[2] # <<>>
                       THEN Put(c1, slot[2], result[2]) ELSE c1
             IN  [continue |-> TRUE, components |-> Put(c2, "city", after)]
        ELSE IF ~Contains(before, " ") /\ word \notin _ADDRESS_VOCABULARY
        THEN [continue |-> TRUE, components |-> Put(comps, "city", after)]
        ELSE [continue |-> FALSE, components |-> comps]

\* one pass of the phase-1 loop body: the dict after it and whether the loop goes on
Phase1Body(comps) ==
    LET city   == Get(comps, "city")
        parts  == Partition(city, ",")
        before == Strip(parts[1])
        after  == Strip(parts[3])
        result == _try_extract_designator(before)
        slot   == _next_free_unit_slot(comps)
        word   == RemoveChar(Upper(before), ".")
    IN  IF city = <<>> \/ ~Contains(city, ",") THEN [continue |-> FALSE, components |-> comps]
        ELSE IF before = <<>> \/ after = <<>> THEN [continue |-> FALSE, components |-> comps]
        ELSE IF result # <<>>
        THEN LET c1 == IF slot # <<>> THEN Put(comps, slot[1], result[1]) ELSE comps
                 c2 == IF slot # <<>> /\ result[2] # <<>>
                       THEN Put(c1, slot[2], result[2]) ELSE c1
             IN  [continue |-> TRUE, components |-> Put(c2, "city", after)]
        ELSE IF ~Contains(before, " ") /\ word \notin _ADDRESS_VOCABULARY
        THEN [continue |-> TRUE, components |-> Put(comps, "city", after)]
        ELSE [continue |-> FALSE, components |-> comps]

\* a leading UNIT_MAP word stripped whether or not a slot is free
Phase2Body_strips_always(comps) ==
    LET city  == Get(comps, "city")
        parts == Partition(city, " ")
        first == parts[1]
        word  == RemoveChar(Upper(first), ".")
        rest  == Strip(parts[3])
        slot  == _next_free_unit_slot(comps)
    IN  IF city = <<>> \/ ~Contains(city, " ") THEN comps
        ELSE IF rest = <<>> THEN comps
        ELSE IF word \in _NO_ID_DESIGNATORS
        THEN Put(IF slot # <<>> THEN Put(comps, slot[1], first) ELSE comps, "city", rest)
        ELSE IF word \in DOMAIN UNIT_MAP
        THEN Put(comps, "city", rest)
        ELSE comps

\* a bare no-identifier designator kept in the city when no slot is free
Phase2Body_keeps_when_full(comps) ==
    LET city  == Get(comps, "city")
        parts == Partition(city, " ")
        first == parts[1]
        word  == RemoveChar(Upper(first), ".")
        rest  == Strip(parts[3])
        slot  == _next_free_unit_slot(comps)
    IN  IF city = <<>> \/ ~Contains(city, " ") THEN comps
        ELSE IF rest = <<>> THEN comps
        ELSE IF word \in _NO_ID_DESIGNATORS
        THEN IF slot # <<>> THEN Put(Put(comps, slot[1], first), "city", rest) ELSE comps
        ELSE IF word \in DOMAIN UNIT_MAP /\ slot = <<>>
        THEN Put(comps, "city", rest)
        ELSE comps

\* phase 2 of _recover_unit_from_city
Phase2Body(comps) ==
    LET city  == Get(comps, "city")
        parts == Partition(city, " ")
        first == parts[1]
        word  == RemoveChar(Upper(first), ".")
        rest  == Strip(parts[3])
        slot  == _next_free_unit_slot(comps)
    IN  IF city = <<>> \/ ~Contains(city, " ") THEN comps
        ELSE IF rest = <<>> THEN comps
        ELSE IF word \in _NO_ID_DESIGNATORS
        THEN Put(IF slot # <<>> THEN Put(comps, slot[1], first) ELSE comps, "city", rest)
        ELSE IF word \in DOMAIN UNIT_MAP /\ slot = <<>>
        THEN Put(comps, "city", rest)
        ELSE comps

\* the fragment appended to every identifier that is present
_recover_identifier_fragment_from_city_both(comps) ==
    LET city == Get(comps, "city")
        rest == Strip(SubSeq(city, 3, Len(city)))
        occ  == IF Get(comps, "occupancy_identifier") # <<>>
                THEN Put(comps, "occupancy_identifier",
                         comps["occupancy_identifier"] \o sp \o <<city[1]>>)
                ELSE comps
        both == IF Get(comps, "subaddress_identifier") # <<>>
                THEN Put(occ, "subaddress_identifier",
                         comps["subaddress_identifier"] \o sp \o <<city[1]>>)
                ELSE occ
    IN  IF city = <<>> \/ Len(city) < 3 THEN comps
        ELSE IF ~IsAlpha(city[1]) \/ city[2] # " " THEN comps
        ELSE IF rest = <<>> THEN comps
        ELSE IF both = comps THEN comps
        ELSE Put(both, "city", rest)

_recover_identifier_fragment_from_city(comps) ==
    LET city == Get(comps, "city")
        rest == Strip(SubSeq(city, 3, Len(city)))
        key  == IF Get(comps, "occupancy_identifier") # <<>> THEN "occupancy_identifier"
                ELSE IF Get(comps, "subaddress_identifier") # <<>>
                THEN "subaddress_identifier"
                ELSE ""
    IN  IF city = <<>> \/ Len(city) < 3 THEN comps
        ELSE IF ~IsAlpha(city[1]) \/ city[2] # " " THEN comps
        ELSE IF rest = <<>> THEN comps
        ELSE IF key = "" THEN comps
        ELSE Put(Put(comps, key, comps[key] \o sp \o <<city[1]>>), "city", rest)

\* re.sub(r"\([^)]*\)", "", raw)
RECURSIVE RemoveParenGroups(_)
RemoveParenGroups(s) ==
    LET i == IndexOf(s, "(")
        t == SubSeq(s, i + 1, Len(s))
        j == IndexOf(t, ")")
    IN  IF i = 0 \/ j = 0 THEN s
        ELSE SubSeq(s, 1, i - 1) \o RemoveParenGroups(SubSeq(t, j + 1, Len(t)))

\* re.sub(r"\s{2,}", " ", s)
RECURSIVE CollapseSpaces(_)
CollapseSpaces(s) ==
    IF s = <<>> THEN <<>>
    ELSE IF Len(s) >= 2 /\ s[1] \in Whitespace /\ s[2] \in Whitespace
    THEN sp \o CollapseSpaces(LStripSet(s, Whitespace))
    ELSE <<s[1]>> \o CollapseSpaces(Tail(s))

\* parse_address: the string handed to the tagger
CleanRaw(r) ==
    Strip(CollapseSpaces(RemoveChar(RemoveChar(RemoveParenGroups(r), "("), ")")))

\* every intersection separator deferred, whatever came before it
FallbackBody_always_defer(st, pair) ==
    LET token == pair[1]
        key   == TagKey(pair[2])
    IN  IF key = "intersection_separator"
        THEN [st EXCEPT !.separator_before = TRUE, !.prev_key = key]
        ELSE [components |->
                 IF key \in DOMAIN st.components
                 THEN IF key = "address_number" /\ st.separator_before
                      THEN Put(st.components, key, st.components[key] \o hyphen \o token)
                      ELSE Put(st.components, key, st.components[key] \o sp \o token)
                 ELSE Put(st.components, key, token),
              separator_before |-> FALSE,
              prev_key |-> key]

\* one pass of the ambiguity loop over (token, label)
FallbackBody(st, pair) ==
    LET token == pair[1]
        key   == TagKey(pair[2])
    IN  IF key = "intersection_separator" /\ st.prev_key = "address_number"
        THEN [st EXCEPT !.separator_before = TRUE, !.prev_key = key]
        ELSE [components |->
                 IF key \in DOMAIN st.components
                 THEN IF key = "address_number" /\ st.separator_before
                      THEN Put(st.components, key, st.components[key] \o hyphen \o token)
                      ELSE Put(st.components, key, st.components[key] \o sp \o token)
                 ELSE Put(st.components, key, token),
              separator_before |-> FALSE,
              prev_key |-> key]

WarningText == "Repeated labels detected; parse may be inaccurate."

\* the phase-1 loop run to its break
RECURSIVE Phase1Loop(_)
Phase1Loop(comps) ==
    LET r == Phase1Body(comps)
    IN  IF r.continue THEN Phase1Loop(r.components) ELSE r.components

_recover_unit_from_city(comps) == Phase2Body(Phase1Loop(comps))

\* the ambiguity loop run over the pairs ps from the loop state st
RECURSIVE FallbackLoop(_, _)
FallbackLoop(st, ps) ==
    IF ps = <<>> THEN st ELSE FallbackLoop(FallbackBody(st, Head(ps)), Tail(ps))

\* what parse_address(r) returns when usaddress.tag answers `outcome`
parse_address(r, outcome) ==
    IF outcome.raised
    THEN [input |-> r,
          components |-> FallbackLoop([components |-> EmptyDict, prev_key |-> "",
                                       separator_before |-> FALSE],
                                      outcome.parsed_string).components,
          type |-> "Ambiguous",
          warning |-> <<WarningText>>]
    ELSE [input |-> r,
          components |-> _recover_identifier_fragment_from_city(
                             _recover_unit_from_city(AdaptLabels(outcome.labels))),
          type |-> outcome.addr_type,
          warning |-> <<>>]

(***************************************************************************)
(* Inputs                                                                  *)
(***************************************************************************)
MaxZipLen == 10
MaxValueLen == 3

\* every str over `alphabet` of at most n characters
StringsUpTo(alphabet, n) == UNION {[1..k -> alphabet] : k \in 0..n}

\* the dict holding the keys of f whose value is not ""
Present(f) == [k \in {x \in DOMAIN f : f[x] # <<>>} |-> f[k]]

z98101 == <<"9","8","1","0","1">>
z981014567 == <<"9","8","1","0","1","4","5","6","7">>
z981 == <<"9","8","1">>
z98101h4567 == <<"9","8","1","0","1","-","4","5","6","7">>

ZipAlphabet == {"1", "2", "-"}

ZipInputs ==
    StringsUpTo(ZipAlphabet, MaxZipLen) \cup {z98101, z981014567, z981, z98101h4567}

\* raw field values: letters in both cases, blanks and the punctuation _get removes
ValueAlphabet == {"w", "A", " ", ",", ".", "(", "5"}

CleanKeys == {"city", "state", "zip_code", "street_name_pre_directional",
              "occupancy_identifier"}

CleanInputs ==
    {(k :> v) : k \in CleanKeys, v \in StringsUpTo(ValueAlphabet, MaxValueLen)}

w4B == <<"4","B">>
w5 == <<"5">>
wC == <<"C">>
wHALL == <<"H","A","L","L">>
wsuite == <<"s","u","i","t","e">>
wXdot == <<"X",".">>

\* ", ." is cleaned to " ", which no table holds and _lookup cleans to ""
wCommaDot == <<",", " ", ".">>

UnitTypeValues == {<<>>, wsuite, wBLDG, wXdot, wCommaDot}
UnitIdValues == {<<>>, w4B, hash \o sp \o w4B, hash \o wAPT \o sp \o w5, hash,
                 wAPT, wUNIT \o sp \o wC, wCommaDot}
FallbackValues == {<<>>, wSTE \o sp \o wC, wHALL, wBLDG}

UnitInputs ==
    {Present(("occupancy_type" :> ot) @@ ("occupancy_identifier" :> oi) @@
             ("subaddress_type" :> st) @@ ("subaddress_identifier" :> si) @@
             ("building_name" :> bn) @@ ("landmark_name" :> ln)) :
        ot \in UnitTypeValues, oi \in UnitIdValues,
        st \in UnitTypeValues, si \in UnitIdValues,
        bn \in FallbackValues, ln \in FallbackValues}

\* one raw value per line-1 key, distinct so that the order shows
LineToken ==
    ("address_number_prefix" :> <<"A">>) @@ ("address_number" :> <<"1","2","3">>) @@
    ("address_number_suffix" :> <<"B">>) @@
    ("street_name_pre_directional" :> <<"n","o","r","t","h">>) @@
    ("street_name_pre_modifier" :> <<"O","L","D">>) @@
    ("street_name_pre_type" :> <<"a","v","e","n","u","e">>) @@
    ("street_name" :> <<"M","a","i","n">>) @@
    ("street_name_post_type" :> <<"S","t","r","e","e","t">>) @@
    ("street_name_post_directional" :> wSW) @@
    ("street_name_post_modifier" :> <<"E","X","T">>) @@
    ("second_street_name_pre_directional" :> <<"s","o","u","t","h">>) @@
    ("second_street_name_pre_modifier" :> <<"N","E","W">>) @@
    ("second_street_name_pre_type" :> <<"H","W","Y">>) @@
    ("second_street_name" :> <<"1","s","t">>) @@
    ("second_street_name_post_type" :> <<"A","v","e",".">>) @@
    ("second_street_name_post_directional" :> wNE) @@
    ("second_street_name_post_modifier" :> <<"B","Y","P">>) @@
    ("usps_box_type" :> <<"P","O"," ","B","O","X">>) @@
    ("usps_box_id" :> <<"4","2">>)

LineMap(keys) == [k \in keys |-> LineToken[k]]

FewPrimary == {{}, {"street_name"}, {"street_name", "street_name_post_type"}}
FewSecond == {{}, {"second_street_name"},
              {"second_street_name", "second_street_name_post_type"},
              Range(SecondStreetKeys)}

LineInputs ==
    {LineMap(n \cup a \cup b) :
        n \in SUBSET Range(NumberKeys), a \in SUBSET Range(PrimaryStreetKeys),
        b \in FewSecond}
    \cup
    {LineMap(n \cup a \cup b) :
        n \in SUBSET Range(NumberKeys), a \in FewPrimary,
        b \in SUBSET Range(SecondStreetKeys)}
    \cup
    {LineMap(n \cup a \cup b \cup x) :
        n \in {{}, {"address_number"}}, a \in {{}, {"street_name"}},
        b \in {{}, {"second_street_name"}},
        x \in SUBSET {"usps_box_type", "usps_box_id"}}

StdInputs == CleanInputs \cup UnitInputs \cup LineInputs

(***************************************************************************)
(* Sequential calls                                                        *)
(***************************************************************************)
NoTag == [raised |-> FALSE, labels |-> EmptyDict, addr_type |-> "", parsed_string |-> <<>>]

\* the variables a call does not use
Idle(used) ==
    /\ "raw" \in used \/ raw = <<>>
    /\ "cleaned" \in used \/ cleaned = <<>>
    /\ "tagged" \in used \/ tagged = NoTag
    /\ "pos" \in used \/ pos = 0
    /\ "prev_key" \in used \/ prev_key = ""
    /\ "separator_before" \in used \/ separator_before = FALSE
    /\ "components" \in used \/ components = EmptyDict
    /\ "response" \in used \/ response = <<>>
    /\ tables = InitialTables
    /\ "caller_components" \in used \/ caller_components = EmptyDict
    /\ "calls" \in used \/ calls = <<>>

\* ---- _std_zip(raw) ----
InitZip ==
    /\ pc = "zip_call"
    /\ raw \in ZipInputs
    /\ Idle({"raw"})

StdZipCall ==
    /\ pc = "zip_call"
    /\ response' = _std_zip(raw)
    /\ pc' = "zip_done"
    /\ UNCHANGED <<raw, cleaned, tagged, pos, prev_key, separator_before,
                   components, tables, caller_components, calls>>

NextZip == StdZipCall

SpecZip == InitZip /\ [][NextZip]_vars

\* ---- standardize(components), and the caller handing the result back ----
InitStd ==
    /\ pc = "std_call"
    /\ components \in StdInputs
    /\ Idle({"components"})

StandardizeCall ==
    /\ pc \in {"std_call", "std_recall"}
    /\ response' = standardize(components)
    /\ pc' = IF pc = "std_call" THEN "std_done" ELSE "std_redone"
    /\ UNCHANGED <<raw, cleaned, tagged, pos, prev_key, separator_before,
                   components, tables, caller_components, calls>>

\* the caller hands the components of the previous result back to standardize
Resubmit ==
    /\ pc = "std_done"
    /\ components' = response.components
    /\ response' = <<>>
    /\ pc' = "std_recall"
    /\ UNCHANGED <<raw, cleaned, tagged, pos, prev_key, separator_before,
                   tables, caller_components, calls>>

NextStd == StandardizeCall \/ Resubmit

SpecStd == InitStd /\ [][NextStd]_vars

\* ---- parse_address(raw) ----
MaxTokens == 4
MaxCityWords == 3

w1804 == <<"1","8","0","4">>
w1810 == <<"1","8","1","0">>
wMAIN == <<"M","A","I","N">>
wSEATTLE == <<"S","E","A","T","T","L","E">>
wLEVEL == <<"L","E","V","E","L">>
wROYAL == <<"R","O","Y","A","L">>
wK == <<"K">>
w1 == <<"1">>
w2 == <<"2">>
wLowrDot == <<"L","o","w","r",".">>
tab == <<"\t">>

RawInputs ==
    {w1 \o sp \o wMAIN,
     w1 \o sp \o <<"(">> \o wC \o <<")">> \o sp \o wMAIN,
     w1 \o sp \o sp \o wMAIN \o <<")">>,
     <<"(">> \o w1 \o sp \o <<"(">> \o wMAIN \o <<")">> \o tab \o sp \o wST}

\* addr_type is whatever usaddress.tag returns; parse_address passes it through
AddrTypes == {"Street Address", "Intersection", "Ambiguous"}

\* (token, label) pairs of exc.parsed_string
TokenPairs ==
    {<<w1804, "AddressNumber">>, <<w1810, "AddressNumber">>,
     <<amp, "IntersectionSeparator">>, <<wMAIN, "StreetName">>,
     <<wK, "Foo">>}

TokenStreams == StringsUpTo(TokenPairs, MaxTokens)

ParseLabelSets ==
    {Present(("PlaceName" :> c) @@ ("OccupancyIdentifier" :> o) @@
             ("AddressNumber" :> n) @@ ("Foo" :> f)) :
        c \in {<<>>, wSEATTLE, wLOWR \o comma \o sp \o wSEATTLE, wK \o sp \o wSEATTLE},
        o \in {<<>>, w1}, n \in {<<>>, w1804}, f \in {<<>>, wK}}

\* city strings: words joined by " " or ", "
CityWords == {wLOWR, wUNIT, wSEATTLE, wK, wST}
CitySeps == {sp, comma \o sp}

RECURSIVE CitiesOf(_)
CitiesOf(n) ==
    IF n = 0 THEN {}
    ELSE IF n = 1 THEN CityWords
    ELSE {c \o s \o w : c \in CitiesOf(n - 1), s \in CitySeps, w \in CityWords}

CityValues ==
    UNION {CitiesOf(n) : n \in 1..MaxCityWords}
    \cup {<<>>,
          wLOWR \o sp \o wLEVEL \o comma \o sp \o wUNIT \o sp \o wSEATTLE,
          wKEY \o sp \o wWEST, wFRONT \o sp \o wROYAL,
          wLowrDot \o sp \o wSEATTLE, wLOWR \o sp, wLOWR \o tab \o wSEATTLE,
          comma \o wSEATTLE, wSEATTLE \o comma, wSEATTLE \o comma \o sp,
          wK \o sp, wK \o sp \o sp \o wSEATTLE, wK \o wSEATTLE,
          w1 \o sp \o wSEATTLE, wLowrDot \o comma \o wLowrDot \o sp \o w2 \o comma \o wSEATTLE}

\* unit fields already tagged: <<OccupancyType, OccupancyIdentifier>> and the
\* same for Subaddress
TaggedUnits == {<<<<>>, <<>>>>, <<wSTE, w1>>, <<<<>>, w1>>, <<wSTE, <<>>>>}

CityLabelSets ==
    {Present(("PlaceName" :> c) @@
             ("OccupancyType" :> o[1]) @@ ("OccupancyIdentifier" :> o[2]) @@
             ("SubaddressType" :> b[1]) @@ ("SubaddressIdentifier" :> b[2]) @@
             ("StreetName" :> n)) :
        c \in CityValues, o \in TaggedUnits,
        b \in {<<<<>>, <<>>>>, <<wBLDG, w2>>, <<<<>>, w2>>},
        n \in {<<>>, wMAIN}}

InitParse ==
    /\ pc = "parse_call"
    /\ raw \in RawInputs
    /\ Idle({"raw"})

CleanStep ==
    /\ pc = "parse_call"
    /\ cleaned' = CleanRaw(raw)
    /\ pc' = "tag"
    /\ UNCHANGED <<raw, tagged, pos, prev_key, separator_before, components,
                   response, tables, caller_components, calls>>

\* usaddress.tag(cleaned) returns (tagged, addr_type)
TagOk ==
    /\ pc = "tag"
    /\ \E labels \in ParseLabelSets, t \in AddrTypes :
          /\ tagged' = [raised |-> FALSE, labels |-> labels, addr_type |-> t,
                        parsed_string |-> <<>>]
          /\ components' = AdaptLabels(labels)
    /\ pc' = "phase1"
    /\ UNCHANGED <<raw, cleaned, pos, prev_key, separator_before, response,
                   tables, caller_components, calls>>

\* usaddress.tag(cleaned) raises RepeatedLabelError
TagRepeated ==
    /\ pc = "tag"
    /\ \E ps \in TokenStreams :
          tagged' = [raised |-> TRUE, labels |-> EmptyDict, addr_type |-> "",
                     parsed_string |-> ps]
    /\ components' = EmptyDict
    /\ prev_key' = ""
    /\ separator_before' = FALSE
    /\ pos' = 1
    /\ pc' = "fallback"
    /\ UNCHANGED <<raw, cleaned, response, tables, caller_components, calls>>

FallbackStep ==
    /\ pc = "fallback"
    /\ pos <= Len(tagged.parsed_string)
    /\ LET st == FallbackBody([components |-> components, prev_key |-> prev_key,
                               separator_before |-> separator_before],
                              tagged.parsed_string[pos])
       IN  /\ components' = st.components
           /\ prev_key' = st.prev_key
           /\ separator_before' = st.separator_before
    /\ pos' = pos + 1
    /\ UNCHANGED <<pc, raw, cleaned, tagged, response, tables, caller_components, calls>>

\* the ambiguous path falling through to the city recovery
FallbackReturn_falls_through ==
    /\ pc = "fallback"
    /\ pos > Len(tagged.parsed_string)
    /\ pc' = "phase1"
    /\ UNCHANGED <<raw, cleaned, tagged, pos, prev_key, separator_before,
                   components, response, tables, caller_components, calls>>

FallbackReturn ==
    /\ pc = "fallback"
    /\ pos > Len(tagged.parsed_string)
    /\ response' = [input |-> raw, components |-> components, type |-> "Ambiguous",
                    warning |-> <<WarningText>>]
    /\ pc' = "parse_done"
    /\ UNCHANGED <<raw, cleaned, tagged, pos, prev_key, separator_before,
                   components, tables, caller_components, calls>>

Phase1Step ==
    /\ pc = "phase1"
    /\ LET r == Phase1Body(components)
       IN  /\ components' = r.components
           /\ pc' = IF r.continue THEN "phase1" ELSE "phase2"
    /\ UNCHANGED <<raw, cleaned, tagged, pos, prev_key, separator_before,
                   response, tables, caller_components, calls>>

Phase2Step ==
    /\ pc = "phase2"
    /\ components' = Phase2Body(components)
    /\ pc' = "fragment"
    /\ UNCHANGED <<raw, cleaned, tagged, pos, prev_key, separator_before,
                   response, tables, caller_components, calls>>

FragmentStep ==
    /\ pc = "fragment"
    /\ components' = _recover_identifier_fragment_from_city(components)
    /\ pc' = "return"
    /\ UNCHANGED <<raw, cleaned, tagged, pos, prev_key, separator_before,
                   response, tables, caller_components, calls>>

ParseReturn ==
    /\ pc = "return"
    /\ response' = [input |-> raw, components |-> components,
                    type |-> tagged.addr_type, warning |-> <<>>]
    /\ pc' = "parse_done"
    /\ UNCHANGED <<raw, cleaned, tagged, pos, prev_key, separator_before,
                   components, tables, caller_components, calls>>

NextParse ==
    \/ CleanStep
    \/ TagOk
    \/ TagRepeated
    \/ FallbackStep
    \/ FallbackReturn
    \/ Phase1Step
    \/ Phase2Step
    \/ FragmentStep
    \/ ParseReturn

SpecParse == InitParse /\ [][NextParse]_vars

\* ---- the city recovery of parse_address, from the dict the tag adapter built ----
InitCity ==
    /\ pc = "phase1"
    /\ \E labels \in CityLabelSets :
          /\ tagged = [raised |-> FALSE, labels |-> labels,
                       addr_type |-> "Street Address", parsed_string |-> <<>>]
          /\ components = AdaptLabels(labels)
    /\ Idle({"tagged", "components"})

NextCity == Phase1Step \/ Phase2Step \/ FragmentStep \/ ParseReturn

SpecCity == InitCity /\ [][NextCity]_vars

\* ---- the phase-1 loop of _recover_unit_from_city alone; a running loop takes
\* its next iteration ----
MaxSegments == 3

\* the texts between the commas of a city: a designator with and without an
\* identifier, a word outside and a word inside the vocabulary, two words that
\* are no designator, a word with a period, and nothing
Segments == {wLOWR \o sp \o wLEVEL, wUNIT, wK, wST, wK \o sp \o wSEATTLE, wLowrDot, <<>>}

RECURSIVE SegmentsJoined(_)
SegmentsJoined(n) ==
    IF n = 1 THEN Segments
    ELSE {c \o comma \o sp \o g : c \in SegmentsJoined(n - 1), g \in Segments}

Phase1Cities == UNION {SegmentsJoined(n) : n \in 1..MaxSegments}

\* the unit fields the tag adapter has already filled
Phase1Units ==
    {<<<<>>, <<>>, <<>>, <<>>>>, <<wSTE, w1, <<>>, <<>>>>,
     <<<<>>, w1, <<>>, <<>>>>, <<wSTE, w1, wBLDG, w2>>}

Phase1LabelSets ==
    {Present(("PlaceName" :> c) @@
             ("OccupancyType" :> u[1]) @@ ("OccupancyIdentifier" :> u[2]) @@
             ("SubaddressType" :> u[3]) @@ ("SubaddressIdentifier" :> u[4])) :
        c \in Phase1Cities, u \in Phase1Units}

InitPhase1 ==
    /\ pc = "city_call"
    /\ Idle({})

\* _recover_unit_from_city(components) is entered with the dict of the tag adapter
EnterCity ==
    /\ pc = "city_call"
    /\ \E labels \in Phase1LabelSets :
          /\ tagged' = [raised |-> FALSE, labels |-> labels,
                        addr_type |-> "Street Address", parsed_string |-> <<>>]
          /\ components' = AdaptLabels(labels)
    /\ pc' = "phase1"
    /\ UNCHANGED <<raw, cleaned, pos, prev_key, separator_before, response,
                   tables, caller_components, calls>>

\* the loop is at its head and goes through one more pass; pos counts the passes
Iterate ==
    /\ pc = "phase1"
    /\ pos' = pos + 1

\* one pass of the phase-1 loop
Phase1Iteration ==
    /\ Iterate
    /\ LET r == Phase1Body(components)
       IN  /\ components' = r.components
           /\ pc' = IF r.continue THEN "phase1" ELSE "phase2"
    /\ UNCHANGED <<raw, cleaned, tagged, prev_key, separator_before,
                   response, tables, caller_components, calls>>

NextPhase1 == EnterCity \/ Phase1Iteration

\* a loop that is running takes its next pass
SpecPhase1 == InitPhase1 /\ [][NextPhase1]_vars /\ WF_pos(Iterate)

(***************************************************************************)
(* Concurrent calls: every in-flight call has a frame of locals; the       *)
(* lookup tables and the dict handed to standardize are shared             *)
(***************************************************************************)
MaxCalls == 2

CallIds == 1..MaxCalls

NoUnit == [unit_type |-> <<>>, unit_id |-> <<>>, sub_type |-> <<>>, sub_id |-> <<>>]

\* components.get(key, "") in _get: the caller's dict after the read, had it
\* been components.setdefault(key, "")
ComponentsAfterGet_setdefault(comps, key) ==
    IF key \in DOMAIN comps THEN comps ELSE Put(comps, key, <<>>)

\* components.get(key, "") in _get: the caller's dict after the read
ComponentsAfterGet(comps, key) == comps

\* the caller's dict after _get on each key of keys, in order
RECURSIVE AfterGets(_, _)
AfterGets(comps, keys) ==
    IF keys = <<>> THEN comps
    ELSE AfterGets(ComponentsAfterGet(comps, Head(keys)), Tail(keys))

UnitKeys == <<"occupancy_type", "occupancy_identifier",
              "subaddress_type", "subaddress_identifier">>
LastKeys == <<"city", "state", "zip_code", "usps_box_type", "usps_box_id">>

\* dicts a caller hands to standardize
ConcComponents ==
    {EmptyDict,
     ("address_number" :> w1) @@ ("street_name" :> wMAIN) @@
     ("street_name_post_type" :> wSTREET) @@
     ("occupancy_identifier" :> hash \o wAPT \o sp \o w5) @@
     ("city" :> wSEATTLE \o sp \o comma) @@ ("state" :> wWASHINGTON) @@
     ("zip_code" :> z981014567),
     ("building_name" :> wSTE \o sp \o wC) @@ ("street_name_pre_directional" :> wNORTH) @@
     ("second_street_name" :> wMAIN) @@ ("usps_box_id" :> w2)}

ConcRaw == {w1 \o sp \o <<"(">> \o wC \o <<")">> \o sp \o wMAIN}

ConcLabelSets ==
    {("PlaceName" :> wLOWR \o comma \o sp \o wSEATTLE) @@ ("AddressNumber" :> w1804),
     ("PlaceName" :> wK \o sp \o wSEATTLE) @@ ("OccupancyIdentifier" :> w1)}

ConcStreams ==
    {<<<<w1804, "AddressNumber">>, <<amp, "IntersectionSeparator">>,
       <<w1810, "AddressNumber">>>>,
     <<<<wMAIN, "StreetName">>, <<wMAIN, "StreetName">>>>}

\* the frame of a call that has just been entered
NewCall(kind, r, comps) ==
    [kind |-> kind,
     pc |-> IF kind = "parse" THEN "parse_call" ELSE "std_number",
     raw |-> r, arg |-> comps,
     cleaned |-> <<>>, tagged |-> NoTag, pos |-> 0, prev_key |-> "",
     separator_before |-> FALSE, components |-> EmptyDict,
     std |-> EmptyDict, unit |-> NoUnit, response |-> <<>>]

InitConc ==
    /\ pc = "concurrent"
    /\ caller_components \in ConcComponents
    /\ calls \in [CallIds -> {NewCall("parse", r, EmptyDict) : r \in ConcRaw}
                             \cup {NewCall("standardize", <<>>, caller_components)}]
    /\ Idle({"caller_components", "calls"})

\* call c moves to frame f; the sequential variables stay idle
Moves(c, f) ==
    /\ calls' = [calls EXCEPT ![c] = f]
    /\ UNCHANGED <<pc, raw, cleaned, tagged, pos, prev_key, separator_before,
                   components, response, tables>>

\* ---- standardize(components), one section at a time ----
ConcStdNumber(c) ==
    /\ calls[c].pc = "std_number"
    /\ Moves(c, [calls[c] EXCEPT !.std = StdNumber(caller_components, EmptyDict),
                                 !.pc = "std_street"])
    /\ caller_components' = AfterGets(caller_components, NumberKeys)

ConcStdStreet(c) ==
    /\ calls[c].pc = "std_street"
    /\ Moves(c, [calls[c] EXCEPT
                   !.std = _standardize_street_fields(caller_components,
                              _standardize_street_fields(caller_components, @, ""),
                              "second_"),
                   !.pc = "std_unit"])
    /\ caller_components' = AfterGets(caller_components,
                                      StreetKeys("") \o StreetKeys("second_"))

ConcStdUnit(c) ==
    /\ calls[c].pc = "std_unit"
    /\ Moves(c, [calls[c] EXCEPT !.unit = UnitResolve(caller_components),
                                 !.std = StdUnit(caller_components, @),
                                 !.pc = "std_last"])
    /\ caller_components' = AfterGets(caller_components, UnitKeys)

ConcStdLast(c) ==
    /\ calls[c].pc = "std_last"
    /\ Moves(c, [calls[c] EXCEPT
                   !.std = StdBox(caller_components,
                                  StdLastFields(caller_components, @)),
                   !.pc = "std_return"])
    /\ caller_components' = AfterGets(caller_components, LastKeys)

ConcStdReturn(c) ==
    /\ calls[c].pc = "std_return"
    /\ Moves(c, [calls[c] EXCEPT !.response = Assemble(calls[c].std, calls[c].unit),
                                 !.pc = "done"])
    /\ UNCHANGED caller_components

\* ---- parse_address(raw), one statement or loop iteration at a time ----
ConcClean(c) ==
    /\ calls[c].pc = "parse_call"
    /\ Moves(c, [calls[c] EXCEPT !.cleaned = CleanRaw(calls[c].raw), !.pc = "tag"])
    /\ UNCHANGED caller_components

ConcTagOk(c) ==
    /\ calls[c].pc = "tag"
    /\ \E labels \in ConcLabelSets :
          Moves(c, [calls[c] EXCEPT
                      !.tagged = [raised |-> FALSE, labels |-> labels,
                                  addr_type |-> "Street Address",
                                  parsed_string |-> <<>>],
                      !.components = AdaptLabels(labels),
                      !.pc = "phase1"])
    /\ UNCHANGED caller_components

ConcTagRepeated(c) ==
    /\ calls[c].pc = "tag"
    /\ \E ps \in ConcStreams :
          Moves(c, [calls[c] EXCEPT
                      !.tagged = [raised |-> TRUE, labels |-> EmptyDict,
                                  addr_type |-> "", parsed_string |-> ps],
                      !.pos = 1,
                      !.pc = "fallback"])
    /\ UNCHANGED caller_components

ConcFallbackStep(c) ==
    /\ calls[c].pc = "fallback"
    /\ calls[c].pos <= Len(calls[c].tagged.parsed_string)
    /\ LET f  == calls[c]
           st == FallbackBody([components |-> f.components, prev_key |-> f.prev_key,
                               separator_before |-> f.separator_before],
                              f.tagged.parsed_string[f.pos])
       IN  Moves(c, [f EXCEPT !.components = st.components,
                              !.prev_key = st.prev_key,
                              !.separator_before = st.separator_before,
                              !.pos = f.pos + 1])
    /\ UNCHANGED caller_components

ConcFallbackReturn(c) ==
    /\ calls[c].pc = "fallback"
    /\ calls[c].pos > Len(calls[c].tagged.parsed_string)
    /\ Moves(c, [calls[c] EXCEPT
                   !.response = [input |-> calls[c].raw,
                                 components |-> calls[c].components,
                                 type |-> "Ambiguous", warning |-> <<WarningText>>],
                   !.pc = "done"])
    /\ UNCHANGED caller_components

ConcPhase1(c) ==
    /\ calls[c].pc = "phase1"
    /\ LET r == Phase1Body(calls[c].components)
       IN  Moves(c, [calls[c] EXCEPT !.components = r.components,
                                     !.pc = IF r.continue THEN "phase1" ELSE "phase2"])
    /\ UNCHANGED caller_components

ConcPhase2(c) ==
    /\ calls[c].pc = "phase2"
    /\ Moves(c, [calls[c] EXCEPT !.components = Phase2Body(@), !.pc = "fragment"])
    /\ UNCHANGED caller_components

ConcFragment(c) ==
    /\ calls[c].pc = "fragment"
    /\ Moves(c, [calls[c] EXCEPT
                   !.components = _recover_identifier_fragment_from_city(@),
                   !.pc = "return"])
    /\ UNCHANGED caller_components

ConcParseReturn(c) ==
    /\ calls[c].pc = "return"
    /\ Moves(c, [calls[c] EXCEPT
                   !.response = [input |-> calls[c].raw,
                                 components |-> calls[c].components,
                                 type |-> calls[c].tagged.addr_type,
                                 warning |-> <<>>],
                   !.pc = "done"])
    /\ UNCHANGED caller_components

NextConc ==
    \E c \in CallIds :
        \/ ConcStdNumber(c)
        \/ ConcStdStreet(c)
        \/ ConcStdUnit(c)
        \/ ConcStdLast(c)
        \/ ConcStdReturn(c)
        \/ ConcClean(c)
        \/ ConcTagOk(c)
        \/ ConcTagRepeated(c)
        \/ ConcFallbackStep(c)
        \/ ConcFallbackReturn(c)
        \/ ConcPhase1(c)
        \/ ConcPhase2(c)
        \/ ConcFragment(c)
        \/ ConcParseReturn(c)

SpecConc == InitConc /\ [][NextConc]_vars

(***************************************************************************)
(* Properties                                                              *)
(***************************************************************************)
DigitPositions(s) == {i \in 1..Len(s) : IsDigit(s[i])}

\* the k-th digit of s, counting from 1
NthDigit(s, k) ==
    s[CHOOSE i \in DigitPositions(s) :
          Cardinality({j \in DigitPositions(s) : j <= i}) = k]

\* C4: _std_zip keeps the digits of its input in order and returns the first
\* five, a hyphen and the next four when there are at least 9; the first five
\* when there are 5 to 8; all of them (possibly none, never padded) when there
\* are fewer than 5. "98101" -> "98101", "981014567" -> "98101-4567",
\* "981" -> "981", "" -> "".
C4_ZipNormalisation ==
    pc = "zip_done" =>
        LET n == Cardinality(DigitPositions(raw))
        IN  /\ n >= 9 =>
                  /\ Len(response) = 10
                  /\ response[6] = "-"
                  /\ \A k \in 1..5 : response[k] = NthDigit(raw, k)
                  /\ \A k \in 6..9 : response[k + 1] = NthDigit(raw, k)
            /\ n \in 5..8 =>
                  /\ Len(response) = 5
                  /\ \A k \in 1..5 : response[k] = NthDigit(raw, k)
            /\ n < 5 =>
                  /\ Len(response) = n
                  /\ \A k \in 1..n : response[k] = NthDigit(raw, k)
            /\ raw = z98101 => response = z98101
            /\ raw = z981014567 => response = z98101h4567
            /\ raw = z981 => response = z981
            /\ raw = <<>> => response = <<>>

\* a nine-digit input with separators between the digits has been normalised
C4_Witness ==
    /\ pc = "zip_done"
    /\ Cardinality(DigitPositions(raw)) = 9
    /\ Len(raw) > 9
    /\ response = z98101h4567

\* the adapted key of the i-th pair of the token/label sequence
KeyAt(ps, i) == TagKey(ps[i][2])

\* the i-th token is an intersection separator right after an address_number token
Deferred(ps, i) ==
    /\ i >= 2
    /\ i <= Len(ps)
    /\ KeyAt(ps, i) = "intersection_separator"
    /\ KeyAt(ps, i - 1) = "address_number"

DualExample ==
    <<<<w1804, "AddressNumber">>, <<amp, "IntersectionSeparator">>,
      <<w1810, "AddressNumber">>>>

\* C3: in ambiguity recovery a repeated address_number token is appended with a
\* hyphen exactly when the token right before it was an intersection separator
\* that itself came right after an address_number token; every other repeated
\* key is appended with one space; a new key is set to its token; the deferred
\* separator changes nothing in the map. 1804 & 1810 yields exactly
\* {address_number: "1804-1810"}.
C3_DualAddress ==
    /\ [][(pc = "fallback" /\ pos' = pos + 1) =>
            LET ps    == tagged.parsed_string
                token == ps[pos][1]
                key   == KeyAt(ps, pos)
            IN  IF Deferred(ps, pos) THEN components' = components
                ELSE IF key \in DOMAIN components
                THEN components' =
                        Put(components, key,
                            components[key]
                              \o (IF key = "address_number" /\ Deferred(ps, pos - 1)
                                  THEN hyphen ELSE sp)
                              \o token)
                ELSE components' = Put(components, key, token)]_vars
    /\ [](pc = "parse_done" /\ tagged.parsed_string = DualExample =>
            response.components = ("address_number" :> (w1804 \o hyphen \o w1810)))

\* the dual-address example has been recovered
C3_Witness ==
    /\ pc = "parse_done"
    /\ tagged.raised
    /\ tagged.parsed_string = DualExample
    /\ response.components = ("address_number" :> (w1804 \o hyphen \o w1810))

\* C7: parse_address returns on every path; the result has type "Ambiguous"
\* together with a warning exactly when the tagger raised the repeated-label
\* error, and otherwise the tagger's own type and no warning; its input field
\* is the raw argument; the city recovery runs only when the tagger did not raise.
C7_AmbiguousIsNotAnError ==
    /\ pc = "fallback" => ENABLED FallbackStep \/ ENABLED FallbackReturn
    /\ pc \in {"phase1", "phase2", "fragment", "return"} => ~tagged.raised
    /\ pc = "fallback" => tagged.raised
    /\ pc = "parse_done" =>
          /\ response.input = raw
          /\ (response.type = "Ambiguous" /\ response.warning # <<>>) <=> tagged.raised
          /\ tagged.raised => response.warning = <<WarningText>>
          /\ ~tagged.raised =>
                response.type = tagged.addr_type /\ response.warning = <<>>

\* an ambiguous tagging of a raw string that cleaning changed has been returned
C7_Witness ==
    /\ pc = "parse_done"
    /\ tagged.raised
    /\ cleaned # raw
    /\ Contains(Get(response.components, "address_number"), "-")
    /\ response.type = "Ambiguous"
    /\ response.input = raw

LowrLevelUnitSeattle == wLOWR \o sp \o wLEVEL \o comma \o sp \o wUNIT \o sp \o wSEATTLE
UnitSeattle == wUNIT \o sp \o wSEATTLE

\* the dict the tag adapter handed to the city recovery
Entry == AdaptLabels(tagged.labels)

\* the dict after phase 1 of the example: the designator in the first slot that
\* was free on entry (in no slot when none was), the city cut to "UNIT SEATTLE"
AfterPhase1OfExample ==
    LET slot == _next_free_unit_slot(Entry)
        held == IF slot = <<>> THEN Entry
                ELSE Put(Put(Entry, slot[1], wLOWR), slot[2], wLEVEL)
    IN  Put(held, "city", UnitSeattle)

\* C9 as stated: after phase 1 the city is "UNIT SEATTLE" with LOWR/LEVEL in the
\* first free slot, and phase 2 leaves "UNIT SEATTLE" when no slot remains free.
C9_AsStated ==
    Get(Entry, "city") = LowrLevelUnitSeattle =>
        /\ pc = "phase2" => components = AfterPhase1OfExample
        /\ (pc = "fragment" /\ _next_free_unit_slot(AfterPhase1OfExample) = <<>>) =>
              Get(components, "city") = UnitSeattle

\* C9 (amended): for city "LOWR LEVEL, UNIT SEATTLE", phase 1 stores type LOWR
\* and identifier LEVEL in the first free unit slot (in none when none is free)
\* and sets city to "UNIT SEATTLE"; phase 2 then leaves "UNIT SEATTLE" when a
\* unit slot is still free and sets city to "SEATTLE" when none is, changing
\* nothing else.
C9_LowrLevelUnitSeattle ==
    Get(Entry, "city") = LowrLevelUnitSeattle =>
        /\ pc = "phase2" => components = AfterPhase1OfExample
        /\ pc = "fragment" =>
              components =
                  IF _next_free_unit_slot(AfterPhase1OfExample) = <<>>
                  THEN Put(AfterPhase1OfExample, "city", wSEATTLE)
                  ELSE AfterPhase1OfExample

\* the example with the occupancy slot taken on entry: the subaddress slot took
\* the designator, no slot was left, and phase 2 stripped UNIT
C9_Witness ==
    /\ pc = "fragment"
    /\ Get(Entry, "city") = LowrLevelUnitSeattle
    /\ Get(Entry, "occupancy_type") = wSTE
    /\ Get(components, "subaddress_type") = wLOWR
    /\ Get(components, "subaddress_identifier") = wLEVEL
    /\ Get(components, "city") = wSEATTLE

\* the first word of the city, as phase 2 reads it
FirstCityWord(comps) == RemoveChar(Upper(Partition(Get(comps, "city"), " ")[1]), ".")

\* C10: phase 2 leaves the whole component map unchanged when the city's first
\* word is KEY or FRONT ("KEY WEST", "FRONT ROYAL") and a unit slot is free.
C10_CityWordsUntouched ==
    [][(pc = "phase2" /\ pc' = "fragment"
        /\ FirstCityWord(components) \in {wKEY, wFRONT}
        /\ _next_free_unit_slot(components) # <<>>)
       => components' = components]_vars

\* C1: re-standardizing is a no-op: with y = standardize(x0).components,
\* standardize(y).components equals y key for key and value for value.
C1_Idempotent ==
    pc = "std_redone" => response.components = components

\* C2: a key is present in the components of a StandardizeResult only if its
\* value is a non-empty string.
C2_NoEmptyValues ==
    pc \in {"std_done", "std_redone"} =>
        \A k \in DOMAIN response.components : response.components[k] # <<>>

\* the unit locals of standardize when the "#" rule is reached
ResolvedUnit == UnitPromote(UnitFallback(UnitRead(components), components))

StdOccupancyType == Get(response.components, "occupancy_type")
StdOccupancyId == Get(response.components, "occupancy_identifier")

\* text after the first character, blanks trimmed
AfterHash(id) == Strip(SubSeq(id, 2, Len(id)))

\* C5 as stated: with an identifier and no type, exactly one of three ordered
\* cases applies: a leading "#" is stripped and the type is "#"; else a leading
\* designator word becomes the type and the rest the identifier; else the type
\* is "#".
C5_AsStated ==
    (pc = "std_done" /\ ResolvedUnit.unit_id # <<>> /\ ResolvedUnit.unit_type = <<>>) =>
        LET id    == ResolvedUnit.unit_id
            parts == SplitFirst(id)
        IN  IF StartsWith(id, hash)
            THEN StdOccupancyType = hash /\ StdOccupancyId = AfterHash(id)
            ELSE IF parts # <<>> /\ parts[1] \in DOMAIN UnitTable
            THEN /\ StdOccupancyType = UnitTable[parts[1]]
                 /\ StdOccupancyId = (IF Len(parts) > 1 THEN parts[2] ELSE <<>>)
            ELSE StdOccupancyType = hash /\ StdOccupancyId = id

\* C5 (amended): with an identifier and no type, a leading "#" is first stripped
\* from the identifier (with the blanks around what is left); then, whether or
\* not a "#" was stripped, if the leading word of what is left is a known unit
\* designator its abbreviation becomes the type and the remainder the
\* identifier, and otherwise the type is "#" and what is left the identifier.
\* "# 4B" with no type gives type "#" and identifier "4B".
C5_UnlabelledIdentifier ==
    /\ (pc = "std_done" /\ ResolvedUnit.unit_id # <<>> /\ ResolvedUnit.unit_type = <<>>) =>
          LET id    == IF StartsWith(ResolvedUnit.unit_id, hash)
                       THEN AfterHash(ResolvedUnit.unit_id)
                       ELSE ResolvedUnit.unit_id
              parts == SplitFirst(id)
          IN  IF parts # <<>> /\ parts[1] \in DOMAIN UnitTable
              THEN /\ StdOccupancyType = UnitTable[parts[1]]
                   /\ StdOccupancyId = (IF Len(parts) > 1 THEN parts[2] ELSE <<>>)
              ELSE StdOccupancyType = hash /\ StdOccupancyId = id
    /\ (pc = "std_done" /\ components = ("occupancy_identifier" :> (hash \o sp \o w4B))) =>
          response.components =
              ("occupancy_type" :> hash) @@ ("occupancy_identifier" :> w4B)

\* "#APT 5" with no type has been split into type APT and identifier 5
C5_Witness ==
    /\ pc = "std_done"
    /\ components = ("occupancy_identifier" :> (hash \o wAPT \o sp \o w5))
    /\ StdOccupancyType = wAPT
    /\ StdOccupancyId = w5

\* the standardized value of each line-1 token of LineToken
LineTokenStd ==
    ("address_number_prefix" :> <<"A">>) @@ ("address_number" :> <<"1","2","3">>) @@
    ("address_number_suffix" :> <<"B">>) @@
    ("street_name_pre_directional" :> wN) @@
    ("street_name_pre_modifier" :> <<"O","L","D">>) @@
    ("street_name_pre_type" :> wAVE) @@
    ("street_name" :> wMAIN) @@
    ("street_name_post_type" :> wST) @@
    ("street_name_post_directional" :> wSW) @@
    ("street_name_post_modifier" :> <<"E","X","T">>) @@
    ("second_street_name_pre_directional" :> wS) @@
    ("second_street_name_pre_modifier" :> <<"N","E","W">>) @@
    ("second_street_name_pre_type" :> <<"H","W","Y">>) @@
    ("second_street_name" :> <<"1","S","T">>) @@
    ("second_street_name_post_type" :> wAVE) @@
    ("second_street_name_post_directional" :> wNE) @@
    ("second_street_name_post_modifier" :> <<"B","Y","P">>) @@
    ("usps_box_type" :> <<"P","O"," ","B","O","X">>) @@
    ("usps_box_id" :> <<"4","2">>)

\* the tokens of the keys present, in the order of `order`
RECURSIVE TokensInOrder(_, _, _)
TokensInOrder(d, order, token) ==
    IF order = <<>> THEN <<>>
    ELSE (IF Get(d, Head(order)) # <<>> THEN <<token[Head(order)]>> ELSE <<>>)
         \o TokensInOrder(d, Tail(order), token)

NumberOrder == <<"address_number_prefix", "address_number", "address_number_suffix">>
PrimaryOrder ==
    <<"street_name_pre_directional", "street_name_pre_modifier", "street_name_pre_type",
      "street_name", "street_name_post_type", "street_name_post_directional",
      "street_name_post_modifier">>
SecondOrder ==
    <<"second_street_name_pre_directional", "second_street_name_pre_modifier",
      "second_street_name_pre_type", "second_street_name",
      "second_street_name_post_type", "second_street_name_post_directional",
      "second_street_name_post_modifier">>
BoxOrder == <<"usps_box_type", "usps_box_id">>

\* C6 as stated: line 1 is the number parts, then the primary street tokens, and,
\* whenever the second street has a token, "&" and the second street's tokens.
C6_AsStated ==
    pc = "std_done" =>
        LET std    == response.components
            tokens == [k \in DOMAIN std |-> std[k]]
            number == TokensInOrder(std, NumberOrder, tokens)
            first  == TokensInOrder(std, PrimaryOrder, tokens)
            second == TokensInOrder(std, SecondOrder, tokens)
        IN  response.address_line_1 =
                Join(number \o first
                       \o (IF second # <<>> THEN <<amp>> \o second ELSE <<>>), sp)

\* the line 1 of C6 (amended) for the standardized dict std whose tokens are `tokens`
AmendedLine1(std, tokens) ==
    LET number == TokensInOrder(std, NumberOrder, tokens)
        first  == TokensInOrder(std, PrimaryOrder, tokens)
        second == TokensInOrder(std, SecondOrder, tokens)
        box    == TokensInOrder(std, BoxOrder, tokens)
    IN  IF first # <<>> /\ second # <<>>
        THEN Join(number \o first \o <<amp>> \o second, sp)
        ELSE IF first # <<>> \/ number # <<>> THEN Join(number \o first, sp)
        ELSE Join(box, sp)

\* C6 (amended): line 1 is the space-join of the non-empty number parts (prefix,
\* number, suffix) and the primary street tokens in the order pre-directional,
\* pre-modifier, pre-type, name, post-type, post-directional, post-modifier,
\* followed, when the primary street and the second street both have a token,
\* by "&" and the second street's tokens in the same order; a second street
\* without a primary street is left out; and with no number part and no primary
\* street token, line 1 is the space-join of the non-empty PO box type and id
\* (empty when there is none). MAIN ST with second street 1ST AVE and no number
\* gives "MAIN ST & 1ST AVE".
C6_Line1 ==
    pc = "std_done" =>
        /\ response.address_line_1 =
              AmendedLine1(response.components,
                           [k \in DOMAIN response.components |-> response.components[k]])
        /\ components \in LineInputs =>
              response.address_line_1 = AmendedLine1(components, LineTokenStd)
        /\ components = LineMap({"street_name", "street_name_post_type",
                                 "second_street_name", "second_street_name_post_type"}) =>
              response.address_line_1 =
                  wMAIN \o sp \o wST \o sp \o amp \o sp \o <<"1","S","T">> \o sp \o wAVE

\* an intersection whose two streets carry all seven tokens, after a number
C6_Witness ==
    /\ pc = "std_done"
    /\ Range(PrimaryStreetKeys) \cup Range(SecondStreetKeys) \cup {"address_number"}
           \subseteq DOMAIN components
    /\ Contains(response.address_line_1, "&")

\* ---- C8 ----
\* the result of the call in frame f when it runs alone on its input
RunAlone(f) ==
    IF f.kind = "parse" THEN parse_address(f.raw, f.tagged) ELSE standardize(f.arg)

\* C8: under any interleaving of concurrent parse and standardize calls, no
\* step writes to a lookup table, to the dict handed to standardize or to the
\* frame of another call, and every call that has returned has returned what
\* it returns when run alone on its input.
C8_NoInterference ==
    /\ [][/\ tables' = tables
          /\ caller_components' = caller_components
          /\ \A c, d \in CallIds :
                (c # d /\ calls'[c] # calls[c]) => calls'[d] = calls[d]]_vars
    /\ [](\A c \in CallIds :
            /\ calls[c].kind = "standardize" => calls[c].arg = caller_components
            /\ calls[c].pc = "done" => calls[c].response = RunAlone(calls[c]))

\* a parse call has returned a recovered unit while a standardize call on a
\* non-empty dict is between two of its sections
C8_Witness ==
    \E c, d \in CallIds :
        /\ c # d
        /\ calls[c].kind = "standardize"
        /\ calls[c].pc \in {"std_street", "std_unit", "std_last", "std_return"}
        /\ calls[c].arg # EmptyDict
        /\ calls[d].kind = "parse"
        /\ calls[d].pc = "done"
        /\ "occupancy_type" \in DOMAIN calls[d].response.components

\* ---- C11 ----
\* the city's text before and after its first space
CityFirst(comps) == Partition(Get(comps, "city"), " ")[1]
CityRest(comps) == Strip(Partition(Get(comps, "city"), " ")[3])

UnitFields == {"occupancy_type", "occupancy_identifier",
               "subaddress_type", "subaddress_identifier"}

\* the type key of the first slot with neither field filled, "" when there is none
FreeTypeKey(comps) ==
    IF Get(comps, "occupancy_type") = <<>> /\ Get(comps, "occupancy_identifier") = <<>>
    THEN "occupancy_type"
    ELSE IF Get(comps, "subaddress_type") = <<>> /\ Get(comps, "subaddress_identifier") = <<>>
    THEN "subaddress_type"
    ELSE ""

\* phase 2 is about to run on a city led by a no-identifier designator
BareNoIdDesignator(comps) ==
    /\ Contains(Get(comps, "city"), " ")
    /\ CityRest(comps) # <<>>
    /\ FirstCityWord(comps) \in _NO_ID_DESIGNATORS

BeforeComma(comps) == Strip(Partition(Get(comps, "city"), ",")[1])
AfterComma(comps) == Strip(Partition(Get(comps, "city"), ",")[3])

\* the text before the comma starts with a unit designator
DesignatorSegment(seg) ==
    LET parts == SplitFirst(seg)
    IN  parts # <<>> /\ RemoveChar(Upper(parts[1]), ".") \in DOMAIN UNIT_MAP

\* the text before the comma is one word (it holds no space) outside the address
\* vocabulary
UnknownSingleWord(seg) ==
    /\ ~Contains(seg, " ")
    /\ RemoveChar(Upper(seg), ".") \notin _ADDRESS_VOCABULARY

\* the conditions under which the phase-1 loop stops
Phase1Stops(comps) ==
    \/ ~Contains(Get(comps, "city"), ",")
    \/ BeforeComma(comps) = <<>>
    \/ AfterComma(comps) = <<>>
    \/ ~(DesignatorSegment(BeforeComma(comps)) \/ UnknownSingleWord(BeforeComma(comps)))

\* C12: the phase-1 loop terminates for every component map: an iteration that
\* continues replaces city by a strictly shorter non-empty string, and the loop
\* stops, leaving the map as it is, exactly when city has no comma, a side of
\* the first comma is empty once trimmed, or the text before the comma is neither a
\* designator segment nor a single out-of-vocabulary word.
C12_Phase1Terminates ==
    /\ [][pc = "phase1" =>
            /\ (pc' = "phase2") <=> Phase1Stops(components)
            /\ pc' = "phase2" => components' = components
            /\ pc' = "phase1" =>
                  /\ Get(components', "city") # <<>>
                  /\ Len(Get(components', "city")) < Len(Get(components, "city"))]_vars
    /\ (pc = "phase1") ~> (pc = "phase2")

\* the loop has stopped after at least two iterations that continued
C12_Witness ==
    /\ pc = "phase2"
    /\ LET once == Phase1Body(Entry)
       IN  /\ once.continue
           /\ Phase1Body(once.components).continue
    /\ Get(components, "city") # <<>>

\* ---- C13 ----
\* the city's text after its first two characters, trimmed
AfterPrefix(comps) == Strip(SubSeq(Get(comps, "city"), 3, Len(Get(comps, "city"))))

\* the identifier the fragment goes to: occupancy before subaddress, "" for none
FragmentKey(comps) ==
    IF Get(comps, "occupancy_identifier") # <<>> THEN "occupancy_identifier"
    ELSE IF Get(comps, "subaddress_identifier") # <<>> THEN "subaddress_identifier"
    ELSE ""

\* the conditions under which the fragment recovery changes the map
FragmentApplies(comps) ==
    /\ Len(Get(comps, "city")) >= 3
    /\ IsAlpha(Get(comps, "city")[1])
    /\ Get(comps, "city")[2] = " "
    /\ AfterPrefix(comps) # <<>>
    /\ FragmentKey(comps) # ""

\* C13: identifier fragment recovery changes the map only when city has at least
\* 3 characters, starts with a letter followed by a space, has text after that
\* prefix and an occupancy or subaddress identifier is non-empty; it then
\* appends a space and the letter to occupancy_identifier if that is non-empty,
\* otherwise to subaddress_identifier, never to both, and sets city to the
\* (trimmed) text after the prefix; in every other case it changes nothing.
C13_FragmentRecovery ==
    [][(pc = "fragment" /\ pc' = "return") =>
          IF FragmentApplies(components)
          THEN components' =
                   [components EXCEPT
                      ![FragmentKey(components)] = @ \o sp \o <<Get(components, "city")[1]>>,
                      !["city"] = AfterPrefix(components)]
          ELSE components' = components]_vars

\* the dict the fragment recovery was called with
BeforeFragment == Phase2Body(Phase1Loop(Entry))

\* the recovery has moved the letter to subaddress_identifier, the occupancy
\* identifier being empty
C13_Witness ==
    /\ pc = "return"
    /\ FragmentApplies(BeforeFragment)
    /\ FragmentKey(BeforeFragment) = "subaddress_identifier"
    /\ Get(components, "subaddress_identifier") =
           Get(BeforeFragment, "subaddress_identifier") \o sp \o wK
    /\ Get(components, "city") = wSEATTLE

\* ---- C14 ----
SubaddressKeys == {"subaddress_type", "subaddress_identifier"}
OccupancyKeys == {"occupancy_type", "occupancy_identifier"}

\* the caller's dict holds subaddress data and no occupancy data
SubaddressOnly(comps) ==
    /\ \A k \in OccupancyKeys : Get(comps, k) = <<>>
    /\ \E k \in SubaddressKeys : Get(comps, k) # <<>>

\* C14: line 2 is the space-join of the non-empty values among subaddress type,
\* subaddress identifier, occupancy type and occupancy identifier of the result,
\* in that order; when the input has subaddress data and no occupancy data the
\* subaddress pair is promoted to occupancy and the result has no subaddress
\* field; the result has a subaddress field only when it has an occupancy type.
C14_Line2 ==
    pc \in {"std_done", "std_redone"} =>
        LET std == response.components
            sub == UnitRead(components)
        IN  /\ response.address_line_2 =
                   Join(SelectSeq(<<Get(std, "subaddress_type"),
                                    Get(std, "subaddress_identifier"),
                                    Get(std, "occupancy_type"),
                                    Get(std, "occupancy_identifier")>>,
                                  LAMBDA x : x # <<>>), sp)
            /\ SubaddressOnly(components) =>
                  /\ SubaddressKeys \cap DOMAIN std = {}
                  /\ sub.sub_type # <<>> =>
                        /\ Get(std, "occupancy_type") = sub.sub_type
                        /\ Get(std, "occupancy_identifier") = sub.sub_id
            /\ SubaddressKeys \cap DOMAIN std # {} => Get(std, "occupancy_type") # <<>>

\* a subaddress BLDG 4B with no occupancy has been promoted: line 2 is "BLDG 4B"
C14_Witness ==
    /\ pc = "std_done"
    /\ SubaddressOnly(components)
    /\ Get(components, "subaddress_type") = wBLDG
    /\ Get(components, "subaddress_identifier") = w4B
    /\ response.address_line_2 = wBLDG \o sp \o w4B
    /\ Get(response.components, "occupancy_type") = wBLDG

\* ---- C15 ----
\* a unit slot holds no data
SlotEmpty(comps, keys) == \A k \in keys : Get(comps, k) = <<>>

\* the step has written a field of the slot
SlotWritten(before, after, keys) == \E k \in keys : Get(after, k) # Get(before, k)

\* what one step of the recovery may do to the dict
KeepsUnitData ==
    /\ \A k \in UnitFields :
          Get(components, k) # <<>> => Get(components', k) = Get(components, k)
    /\ SlotWritten(components, components', OccupancyKeys)
          => SlotEmpty(components, OccupancyKeys)
    /\ SlotWritten(components, components', SubaddressKeys)
          => /\ SlotEmpty(components, SubaddressKeys)
             /\ ~SlotEmpty(components, OccupancyKeys)
             /\ ~SlotWritten(components, components', OccupancyKeys)
    /\ \A k \in (DOMAIN components \cup DOMAIN components')
                    \ (UnitFields \cup {"city"}) :
          /\ k \in DOMAIN components
          /\ k \in DOMAIN components'
          /\ Get(components', k) = Get(components, k)

\* C15: unit-from-city recovery (phases 1 and 2) never overwrites unit data:
\* every occupancy or subaddress field that is non-empty on entry has the same
\* value on exit; a designator is written only into a slot whose type and
\* identifier were both empty at the moment of writing; the subaddress slot is
\* written only when the occupancy slot already holds data; and no key other
\* than city and the four unit fields is changed.
C15_NoOverwrite ==
    /\ [][(pc = "phase1" \/ pc = "phase2") => KeepsUnitData]_vars
    /\ [](pc \in {"phase1", "phase2", "fragment"} =>
            /\ \A k \in UnitFields :
                  Get(Entry, k) # <<>> => Get(components, k) = Get(Entry, k)
            /\ \A k \in DOMAIN Entry \ (UnitFields \cup {"city"}) :
                  k \in DOMAIN components /\ components[k] = Entry[k])

\* the recovery has run on a dict with an occupancy identifier and no occupancy
\* type: the designator went to the subaddress slot, the occupancy type is still
\* absent and the street name is as it was
C15_Witness ==
    /\ pc = "fragment"
    /\ Get(Entry, "occupancy_identifier") = w1
    /\ Get(Entry, "occupancy_type") = <<>>
    /\ SlotEmpty(Entry, SubaddressKeys)
    /\ Get(Entry, "street_name") = wMAIN
    /\ Get(components, "subaddress_type") # <<>>
    /\ Get(components, "occupancy_type") = <<>>
    /\ Get(components, "occupancy_identifier") = w1
    /\ Get(components, "street_name") = wMAIN

====
